---------------------------- MODULE Spec2Model ----------------------------
(***************************************************************************)
(* A model of the sparse_least_squares crate: the CSC sparsity pattern and *)
(* its ordered builder (builder.rs), the value-carrying CsMatrix/CsBuilder *)
(* (cs.rs), the Csc facade with its triangular solves (csc.rs) and the     *)
(* left-looking LU factorization with partial pivoting (sparse_lu.rs).     *)
(*                                                                         *)
(* Vectors are TLA+ sequences holding the 0-based indices of the source:   *)
(* element k of a Rust Vec is s[k + 1].                                    *)
(*                                                                         *)
(* The scalar F (f32/f64) is modelled by exact rationals <<num, den>> in   *)
(* lowest terms with den > 0, plus one absorbing value NonFinite standing  *)
(* for inf/NaN.  Rounding and overflow of the floating-point type are not  *)
(* represented.                                                            *)
(***************************************************************************)
EXTENDS Integers, Sequences, FiniteSets, TLC

VARIABLES
    \* ---- LeftLookingLUFactorization::new / solve (sparse_lu.rs)
    a0,            \* the caller's matrix A (the argument of new)
    a,             \* the working copy `a` that row swaps mutate
    csc_builder,   \* the CscBuilder that accumulates l_u
    pivot,         \* the row permutation
    ci,            \* the column the for loop is about to process
    pat_contains,  \* Vec<bool> membership buffer
    stack,         \* Vec<u32> work stack shared by all columns
    pat_buf,       \* pattern of the last processed column (after relabel)
    val_buf,       \* values of the last processed column (after relabel)
    solved_pat,    \* pat_buf as it was right after the sparse solve
    solved_val,    \* val_buf as it was right after the sparse solve
    best_i,        \* the row chosen as pivot for the last processed column
    lu_pc,         \* "loop" | "returned" | "solved" | an abort reason
    l_u,           \* the finished factor (after new returned)
    b_in,          \* the right-hand side handed to solve
    b_out,         \* b after solve
    \* ---- SparsityPattern::sparse_lower_triangular_solve (builder.rs)
    sp,            \* the pattern
    rb,            \* the list b of start indices
    rout,          \* the out vector
    rpc,           \* "init" | "done"
    \* ---- SparsityPatternBuilder / CsBuilder (builder.rs, cs.rs)
    bld,           \* the CsBuilder
    bhist,         \* every insert call so far: <<maj, min, val, result>>
    bprev,         \* the builder as it was before the last insert
    bbuilt,        \* the CsMatrix returned by build(), or NoMat
    bpc,           \* "open" | "built" | "reverted" | an abort reason
    brev,          \* the revert_to_major call made: <<>> or <<maj>>
    \* ---- CsMatrix::swap_minor (cs.rs)
    sw_m0,         \* the matrix before any swap
    sw_m,          \* the matrix now
    sw_prev,       \* the matrix before the last swap
    sw_calls,      \* the swap_minor calls made so far: <<a, b>>
    \* ---- Csc::from_triplets (csc.rs)
    t_rows,        \* the argument rows
    t_cols,        \* the argument cols
    t_in,          \* the buffer t as the caller filled it
    t_buf,         \* the buffer t now (sorted in place by the call)
    t_res,         \* the returned Result: [res |-> ..., mat |-> ...]
    t_pc,          \* "init" | "done" | an abort reason
    \* ---- Csc::dense_{lower,upper}_triangular_solve_arr (csc.rs)
    dn_m,          \* self
    dn_b,          \* the dense right-hand side b
    dn_out,        \* the out slice
    dn_kind,       \* "lower" | "lower_unit" | "upper"
    dn_pc,         \* "init" | "done"
    \* ---- Csc::sparse_lower_triangular_solve_sorted (csc.rs)
    ss_m,          \* self
    ss_b_idxs,     \* b_idxs
    ss_b,          \* b
    ss_pat,        \* out_sparsity_pattern
    ss_out,        \* out
    ss_unit,       \* assume_unit
    ss_pc          \* "init" | "done"

luvars == <<a0, a, csc_builder, pivot, ci, pat_contains, stack, pat_buf, val_buf,
            solved_pat, solved_val, best_i, lu_pc, l_u, b_in, b_out>>
reachvars == <<sp, rb, rout, rpc>>
bldvars == <<bld, bhist, bprev, bbuilt, bpc, brev>>
swapvars == <<sw_m0, sw_m, sw_prev, sw_calls>>
tripvars == <<t_rows, t_cols, t_in, t_buf, t_res, t_pc>>
densevars == <<dn_m, dn_b, dn_out, dn_kind, dn_pc>>
sparsevars == <<ss_m, ss_b_idxs, ss_b, ss_pat, ss_out, ss_unit, ss_pc>>
callvars == <<swapvars, tripvars, densevars, sparsevars>>
vars == <<luvars, reachvars, bldvars, callvars>>

--------------------------------------------------------------------------
(* Bounds of the model.                                                    *)

\* largest matrix dimension explored for the LU factorization
MaxN == 3
\* swap_minor: largest number of columns, rows, stored entries and calls
MaxSwapCols == 2
MaxSwapRows == 4
MaxSwapNnz == 4
MaxSwaps == 2
\* from_triplets: largest rows / cols / index value, and longest buffer
MaxTripDim == 2
MaxTriplets == 3
\* dense solves: largest dimension and number of stored entries
MaxDenseN == 3
MaxDenseNnz == 5
\* sparse solve: largest dimension and number of stored entries
MaxSparseN == 3
MaxSparseNnz == 4
\* largest number of stored entries of an input matrix
MaxNnz == 5
\* largest pattern dimension explored for the symbolic reachability
MaxReachN == 3
\* largest number of stored entries of a reachability pattern
MaxReachNnz == 4
\* longest start list b
MaxB == 2
\* dimensions of the builder under test
MaxDim == 3
\* most insert calls made on one builder
MaxInserts == 4

--------------------------------------------------------------------------
(* The scalar type F.                                                      *)

Abs(x) == IF x < 0 THEN -x ELSE x

RECURSIVE GCD(_, _)
GCD(x, y) == IF y = 0 THEN x ELSE GCD(y, x % y)

NonFinite == <<1, 0>>

IsFinite(x) == x[2] # 0

Rat(n, d) ==
    IF d = 0 THEN NonFinite
    ELSE LET g == GCD(Abs(n), Abs(d))
             s == IF d < 0 THEN -1 ELSE 1
         IN  <<(s * n) \div g, (s * d) \div g>>

FromInt(n) == <<n, 1>>
Zero == <<0, 1>>
One == <<1, 1>>

FAdd(x, y) ==
    IF IsFinite(x) /\ IsFinite(y) THEN Rat(x[1] * y[2] + y[1] * x[2], x[2] * y[2])
    ELSE NonFinite

FSub(x, y) ==
    IF IsFinite(x) /\ IsFinite(y) THEN Rat(x[1] * y[2] - y[1] * x[2], x[2] * y[2])
    ELSE NonFinite

FMul(x, y) ==
    IF IsFinite(x) /\ IsFinite(y) THEN Rat(x[1] * y[1], x[2] * y[2])
    ELSE NonFinite

\* x / 0 is inf or NaN; a non-finite operand stays non-finite (no divisor of
\* the modelled code is ever non-finite).
FDiv(x, y) ==
    IF IsFinite(x) /\ IsFinite(y) /\ y[1] # 0 THEN Rat(x[1] * y[2], x[2] * y[1])
    ELSE NonFinite

FAbs(x) == <<Abs(x[1]), x[2]>>

\* x < y on finite values
FLt(x, y) == x[1] * y[2] < y[1] * x[2]

--------------------------------------------------------------------------
(* Vec helpers.                                                            *)

At(s, i) == s[i + 1]

Last(s) == s[Len(s)]

Push(s, x) == Append(s, x)

Truncate(s, n) == IF Len(s) > n THEN SubSeq(s, 1, n) ELSE s

\* Vec::resize(n, fill)
Resize(s, n, fill) ==
    IF Len(s) >= n THEN SubSeq(s, 1, n)
    ELSE s \o [k \in 1..(n - Len(s)) |-> fill]

\* slice::swap(i, j), 0-based
SwapAt(s, i, j) ==
    [k \in 1..Len(s) |-> IF k = i + 1 THEN s[j + 1]
                         ELSE IF k = j + 1 THEN s[i + 1] ELSE s[k]]

Contains(s, x) == \E k \in 1..Len(s) : s[k] = x

IsSorted(s) == \A k \in 1..(Len(s) - 1) : s[k] <= s[k + 1]

--------------------------------------------------------------------------
(* SparsityPattern (builder.rs).                                           *)

major_dim(p) == Len(p.major_offsets) - 1

lane(p, i) ==
    SubSeq(p.minor_indices, At(p.major_offsets, i) + 1, At(p.major_offsets, i + 1))

nnz(p) == Len(p.minor_indices)

RECURSIVE EntriesFrom(_, _)
EntriesFrom(p, i) ==
    IF i >= major_dim(p) THEN <<>>
    ELSE [k \in 1..Len(lane(p, i)) |-> <<i, lane(p, i)[k]>>] \o EntriesFrom(p, i + 1)

entries(p) == EntriesFrom(p, 0)

PatternIdentity(n) ==
    [major_offsets |-> [k \in 1..(n + 1) |-> k - 1],
     minor_indices |-> [k \in 1..n |-> k - 1],
     minor_dim |-> n]

RECURSIVE reach(_, _, _)
RECURSIVE ReachLane(_, _, _, _)

\* the inner fn reach of sparse_lower_triangular_solve: out after reach(sp, j, out)
reach(p, j, out) ==
    IF Contains(out, j) THEN out ELSE ReachLane(p, j, 1, Push(out, j))

\* its loop `for &i in sp.lane(j)`, from the k-th element of the lane on
ReachLane(p, j, k, out) ==
    IF k > Len(lane(p, j)) THEN out
    ELSE LET i == lane(p, j)[k]
         IN  IF i < j THEN ReachLane(p, j, k + 1, out)
             ELSE ReachLane(p, j, k + 1, reach(p, i, out))

RECURSIVE ReachEach(_, _, _, _)
\* the loop `for &i in b { reach(&self, i, out) }` from the k-th element on
ReachEach(p, b, k, out) ==
    IF k > Len(b) THEN out ELSE ReachEach(p, b, k + 1, reach(p, b[k], out))

\* the same traversal without out.clear()
sparse_lower_triangular_solve_no_clear(p, b, out) == ReachEach(p, b, 1, out)

\* SparsityPattern::sparse_lower_triangular_solve(b, out): out afterwards
sparse_lower_triangular_solve(p, b, out) == ReachEach(p, b, 1, <<>>)

\* how many times the loop over lane(j) pushes: once per i with i >= j
PushCount(p, j) == Cardinality({k \in 1..Len(lane(p, j)) : lane(p, j)[k] >= j})

RECURSIVE BoolPop(_, _, _)
\* the loop `while let Some(j) = stack.pop()` of
\* sparse_lower_triangular_solve_bool; returned is TRUE when it left through
\* the `return` of the already-traversed test
BoolPop(p, out, st) ==
    IF st = <<>> THEN [out |-> out, stack |-> st, returned |-> FALSE]
    ELSE LET j == Last(st)
             rest == SubSeq(st, 1, Len(st) - 1)
         IN  IF out[j + 1]
             THEN [out |-> out, stack |-> rest, returned |-> TRUE]
             ELSE BoolPop(p, [out EXCEPT ![j + 1] = TRUE],
                          rest \o [k \in 1..PushCount(p, j) |-> j])

RECURSIVE BoolEach(_, _, _, _, _)
\* its loop `for &i in b`, from the k-th element on
BoolEach(p, b, k, out, st) ==
    IF k > Len(b) THEN [out |-> out, stack |-> st]
    ELSE LET r == BoolPop(p, out, Push(st, b[k]))
         IN  IF r.returned THEN [out |-> r.out, stack |-> r.stack]
             ELSE BoolEach(p, b, k + 1, r.out, r.stack)

\* SparsityPattern::sparse_lower_triangular_solve_bool(b, out, stack):
\* out and stack afterwards
sparse_lower_triangular_solve_bool(p, b, out, st) ==
    BoolEach(p, b, 1, [k \in 1..Len(out) |-> FALSE], st)

--------------------------------------------------------------------------
(* SparsityPatternBuilder (builder.rs).                                    *)

Ok == <<"Ok">>
MajorTooLow(m) == <<"MajorTooLow", m>>
MinorTooLow(m, l) == <<"MinorTooLow", m, l>>

SparsityPatternBuilderNew(majd, mind) ==
    [buf |-> [major_offsets |-> <<0>>, minor_indices |-> <<>>, minor_dim |-> mind],
     major_dim |-> majd]

num_entries(sb) == Len(sb.buf.minor_indices)

current_major(sb) == Len(sb.buf.major_offsets) - 1

\* insert that forgets to close the skipped majors
SpInsertNoAdvance(sb, maj, min) ==
    LET curr_major == major_dim(sb.buf)
        offs == sb.buf.major_offsets
        idx == sb.buf.minor_indices
    IN  IF maj < curr_major
        THEN [res |-> MajorTooLow(curr_major), sb |-> sb]
        ELSE IF /\ maj = curr_major
                /\ Last(offs) < Len(idx)
                /\ idx # <<>>
                /\ min <= Last(idx)
        THEN [res |-> MinorTooLow(min, Last(idx)), sb |-> sb]
        ELSE [res |-> Ok,
              sb |-> [sb EXCEPT
                  !.buf.major_offsets =
                      IF maj > curr_major THEN Push(offs, Len(idx)) ELSE offs,
                  !.buf.minor_indices = Push(idx, min)]]

\* SparsityPatternBuilder::insert, for maj < major_dim and min < minor_dim
\* (the two asserts): the result and the builder afterwards.
SpInsert(sb, maj, min) ==
    LET curr_major == major_dim(sb.buf)
        offs == sb.buf.major_offsets
        idx == sb.buf.minor_indices
    IN  IF maj < curr_major
        THEN [res |-> MajorTooLow(curr_major), sb |-> sb]
        ELSE IF /\ maj = curr_major
                /\ Last(offs) < Len(idx)
                /\ idx # <<>>
                /\ min <= Last(idx)
        THEN [res |-> MinorTooLow(min, Last(idx)), sb |-> sb]
        ELSE [res |-> Ok,
              sb |-> [sb EXCEPT
                  !.buf.major_offsets =
                      offs \o [k \in 1..(maj - curr_major) |-> Len(idx)],
                  !.buf.minor_indices = Push(idx, min)]]

\* SparsityPatternBuilder::build
SpBuild(sb) ==
    [sb.buf EXCEPT
        !.major_offsets = Resize(sb.buf.major_offsets, sb.major_dim + 1,
                                 Len(sb.buf.minor_indices))]

\* SparsityPatternBuilder::from
SpFrom(p) == [buf |-> p, major_dim |-> major_dim(p)]

\* SparsityPatternBuilder::revert_to_major.  major_offsets[maj + 1] is an
\* indexing expression: out of range it panics ("oob").
SpRevertToMajor(sb, maj) ==
    IF Len(sb.buf.major_offsets) + 1 <= maj
    THEN [res |-> "false", sb |-> sb]
    ELSE IF maj + 1 >= Len(sb.buf.major_offsets)
    THEN [res |-> "oob", sb |-> sb]
    ELSE LET last == At(sb.buf.major_offsets, maj + 1)
         IN  [res |-> "true",
              sb |-> [sb EXCEPT
                  !.buf.major_offsets = Truncate(sb.buf.major_offsets, maj + 1),
                  !.buf.minor_indices = Truncate(sb.buf.minor_indices, last + 1)]]

--------------------------------------------------------------------------
(* CsMatrix and CsBuilder (cs.rs).                                         *)

CsBuilderNew(majd, mind) ==
    [sparsity_builder |-> SparsityPatternBuilderNew(majd, mind), values |-> <<>>]

CsFromMat(m) == [sparsity_builder |-> SpFrom(m.pattern), values |-> m.values]

\* CsBuilder::insert that pushes the value before the index check
CsInsertPushFirst(cb, maj, min, val) ==
    LET r == SpInsert(cb.sparsity_builder, maj, min)
    IN  [res |-> r.res,
         cb |-> [sparsity_builder |-> r.sb, values |-> Push(cb.values, val)]]

\* CsBuilder::insert
CsInsert(cb, maj, min, val) ==
    LET r == SpInsert(cb.sparsity_builder, maj, min)
    IN  IF r.res # Ok
        THEN [res |-> r.res, cb |-> cb]
        ELSE [res |-> Ok,
              cb |-> [sparsity_builder |-> r.sb, values |-> Push(cb.values, val)]]

\* CsBuilder::build
CsBuild(cb) == [pattern |-> SpBuild(cb.sparsity_builder), values |-> cb.values]

\* CsBuilder::revert_to_major
CsRevertToMajor(cb, maj) ==
    LET r == SpRevertToMajor(cb.sparsity_builder, maj)
    IN  IF r.res # "true"
        THEN [res |-> r.res, cb |-> cb]
        ELSE [res |-> "true",
              cb |-> [sparsity_builder |-> r.sb,
                      values |-> Truncate(cb.values, num_entries(r.sb))]]

CsIdentity(n) == [pattern |-> PatternIdentity(n), values |-> [k \in 1..n |-> One]]

\* CsMatrix::lane: the (values, minor indices) slices of major i
CsLane(m, i) ==
    LET s == At(m.pattern.major_offsets, i)
        e == At(m.pattern.major_offsets, i + 1)
    IN  [vals |-> SubSeq(m.values, s + 1, e), idx |-> SubSeq(m.pattern.minor_indices, s + 1, e)]

\* one adjacent compare-and-swap of the parallel arrays at 0-based idx, idx + 1
SwapIfGreater(pv, idx) ==
    IF At(pv.idx, idx) > At(pv.idx, idx + 1)
    THEN [idx |-> SwapAt(pv.idx, idx, idx + 1), vals |-> SwapAt(pv.vals, idx, idx + 1)]
    ELSE pv

RECURSIVE ForwardPass(_, _, _)
\* `for idx in s..e - 1 { if mi[idx] > mi[idx + 1] { swap } }`, from idx on
ForwardPass(pv, idx, e) ==
    IF idx + 1 >= e THEN pv ELSE ForwardPass(SwapIfGreater(pv, idx), idx + 1, e)

RECURSIVE ReversePass(_, _, _)
\* `for idx in (s + 1..e).rev() { if mi[idx - 1] > mi[idx] { swap } }`, from idx down
ReversePass(pv, s, idx) ==
    IF idx <= s THEN pv ELSE ReversePass(SwapIfGreater(pv, idx - 1), s, idx - 1)

\* a relabelling that renames a to b only
RelabelOneWay(idx, x, y) ==
    [k \in 1..Len(idx) |-> IF idx[k] = x THEN y ELSE idx[k]]

\* the relabelling loop: every a becomes b and every b becomes a
Relabel(idx, x, y) ==
    [k \in 1..Len(idx) |-> IF idx[k] = x THEN y ELSE IF idx[k] = y THEN x ELSE idx[k]]

RECURSIVE ResortLanesForwardOnly(_, _, _)
\* the resort with the forward pass only
ResortLanesForwardOnly(offs, pv, i) ==
    IF i + 1 >= Len(offs) THEN pv
    ELSE ResortLanesForwardOnly(offs, ForwardPass(pv, At(offs, i), At(offs, i + 1)), i + 1)

RECURSIVE ResortLanes(_, _, _)
\* the loop `for i in 0..major_dim` of swap_minor, from major i on
ResortLanes(offs, pv, i) ==
    IF i + 1 >= Len(offs) THEN pv
    ELSE LET s == At(offs, i)
             e == At(offs, i + 1)
         IN  ResortLanes(offs, ReversePass(ForwardPass(pv, s, e), s, e - 1), i + 1)

\* CsMatrix::swap_minor(a, b) (Csc::swap_rows)
swap_minor(m, x, y) ==
    LET pv == ResortLanes(m.pattern.major_offsets,
                          [idx |-> Relabel(m.pattern.minor_indices, x, y),
                           vals |-> m.values], 0)
    IN  [pattern |-> [m.pattern EXCEPT !.minor_indices = pv.idx], values |-> pv.vals]

ncols(m) == major_dim(m.pattern)
nrows(m) == m.pattern.minor_dim

--------------------------------------------------------------------------
(* Triangular solves of Csc (csc.rs).                                      *)

RECURSIVE SkipWhile(_, _, _, _)
\* `while iter.next_if(|n| n.0 < bound).is_some() {}` (less = TRUE), or with
\* `>` (less = FALSE): the position of the iterator afterwards
SkipWhile(rows, pos, bound, less) ==
    IF pos <= Len(rows) /\ (IF less THEN rows[pos] < bound ELSE rows[pos] > bound)
    THEN SkipWhile(rows, pos + 1, bound, less)
    ELSE pos

RECURSIVE SubtractBelow(_, _, _, _, _)
\* `for (ri, v) in self.col_iter(i) { if ri > i { out[ri] -= v * mul } }`
SubtractBelow(col, k, i, mul, out) ==
    IF k > Len(col.idx) THEN out
    ELSE SubtractBelow(col, k + 1, i, mul,
             IF col.idx[k] > i
             THEN [out EXCEPT ![col.idx[k] + 1] = FSub(@, FMul(col.vals[k], mul))]
             ELSE out)

RECURSIVE DenseLowerFrom(_, _, _, _)
\* the loop `for i in 0..n` of dense_lower_triangular_solve_arr (N = 1)
DenseLowerFrom(m, i, out, unit_diagonal) ==
    IF i >= Len(out) THEN out
    ELSE LET col == CsLane(m, i)
             pos == SkipWhile(col.idx, 1, i, TRUE)
             divided ==
                 IF pos <= Len(col.idx) /\ col.idx[pos] = i /\ ~ unit_diagonal
                 THEN [out EXCEPT ![i + 1] = FDiv(@, col.vals[pos])]
                 ELSE out
         IN  DenseLowerFrom(m, i + 1,
                            SubtractBelow(col, 1, i, divided[i + 1], divided),
                            unit_diagonal)

\* the lower solve that divides by the stored diagonal whatever the flag
dense_lower_always_dividing(m, b, unit_diagonal) == DenseLowerFrom(m, 0, b, FALSE)

\* Csc::dense_lower_triangular_solve_arr(b, out, unit_diagonal): out afterwards
dense_lower_triangular_solve_arr(m, b, unit_diagonal) ==
    DenseLowerFrom(m, 0, b, unit_diagonal)

Reverse(s) == [k \in 1..Len(s) |-> s[Len(s) + 1 - k]]

RECURSIVE SubtractAbove(_, _, _, _, _)
\* `for (row, &v) in iter { if row < i { out[row] -= v * mul } }` over what
\* is left of the reversed column iterator
SubtractAbove(rcol, k, i, mul, out) ==
    IF k > Len(rcol.idx) THEN out
    ELSE SubtractAbove(rcol, k + 1, i, mul,
             IF rcol.idx[k] < i
             THEN [out EXCEPT ![rcol.idx[k] + 1] = FSub(@, FMul(rcol.vals[k], mul))]
             ELSE out)

RECURSIVE DenseUpperFrom(_, _, _)
\* the loop `for i in (0..n).rev()` of dense_upper_triangular_solve_arr (N = 1)
DenseUpperFrom(m, i, out) ==
    IF i < 0 THEN out
    ELSE LET col == CsLane(m, i)
             rcol == [idx |-> Reverse(col.idx), vals |-> Reverse(col.vals)]
             pos == SkipWhile(rcol.idx, 1, i, FALSE)
             diag == pos <= Len(rcol.idx) /\ rcol.idx[pos] = i
             divided ==
                 IF diag THEN [out EXCEPT ![i + 1] = FDiv(@, rcol.vals[pos])] ELSE out
             rest == IF diag THEN pos + 1 ELSE pos
         IN  DenseUpperFrom(m, i - 1,
                            SubtractAbove(rcol, rest, i, divided[i + 1], divided))

\* Csc::dense_upper_triangular_solve_arr(b, out): out afterwards
dense_upper_triangular_solve_arr(m, b) == DenseUpperFrom(m, Len(b) - 1, b)

\* `out_sparsity_pattern.iter().position(|&p| p == bi)`: 0 when there is none
Position(s, x) ==
    IF Contains(s, x) THEN CHOOSE k \in 1..Len(s) : s[k] = x /\ \A m \in 1..(k - 1) : s[m] # x
    ELSE 0

RECURSIVE Scatter(_, _, _, _, _)
\* the initialisation loop of sparse_lower_triangular_solve_sorted
Scatter(b_idxs, b, out_pat, k, out) ==
    IF k > Len(b) THEN out
    ELSE LET out_pos == Position(out_pat, b_idxs[k])
         IN  Scatter(b_idxs, b, out_pat, k + 1,
                     IF out_pos = 0 THEN out ELSE [out EXCEPT ![out_pos] = b[k]])

RECURSIVE SparseInner(_, _, _, _, _, _)
\* the inner loop over out_pat[i + 1..], sharing the column iterator (at pos)
SparseInner(col, pos, out_pat, ni, mul, out) ==
    IF ni > Len(out_pat) THEN out
    ELSE LET p2 == SkipWhile(col.idx, pos, out_pat[ni], TRUE)
         IN  IF p2 <= Len(col.idx) /\ col.idx[p2] = out_pat[ni]
             THEN SparseInner(col, p2, out_pat, ni + 1, mul,
                      [out EXCEPT ![ni] = FSub(@, FMul(col.vals[p2], mul))])
             ELSE SparseInner(col, p2, out_pat, ni + 1, mul, out)

RECURSIVE SparseOuter(_, _, _, _, _)
\* the loop `for (i, &row) in out_sparsity_pattern.iter().enumerate()`
SparseOuter(m, out_pat, i, out, assume_unit) ==
    IF i > Len(out_pat) THEN out
    ELSE LET row == out_pat[i]
             col == CsLane(m, row)
             pos == IF assume_unit THEN 1 ELSE SkipWhile(col.idx, 1, row, TRUE)
             divided ==
                 IF ~ assume_unit /\ pos <= Len(col.idx) /\ col.idx[pos] = row
                 THEN [out EXCEPT ![i] = FDiv(@, col.vals[pos])]
                 ELSE out
         IN  SparseOuter(m, out_pat, i + 1,
                         SparseInner(col, pos, out_pat, i + 1, divided[i], divided),
                         assume_unit)

\* the solve without the initialisation of out from b
sparse_solve_without_scatter(m, b_idxs, b, out_pat, out, assume_unit) ==
    SparseOuter(m, out_pat, 1, [k \in 1..Len(out) |-> Zero], assume_unit)

\* the solve that takes the diagonal as 1 whatever the flag
sparse_solve_always_unit(m, b_idxs, b, out_pat, out, assume_unit) ==
    SparseOuter(m, out_pat, 1,
                Scatter(b_idxs, b, out_pat, 1, [k \in 1..Len(out) |-> Zero]),
                TRUE)

\* Csc::sparse_lower_triangular_solve_sorted(b_idxs, b, out_pat, out,
\* assume_unit): out afterwards
sparse_lower_triangular_solve_sorted(m, b_idxs, b, out_pat, out, assume_unit) ==
    SparseOuter(m, out_pat, 1,
                Scatter(b_idxs, b, out_pat, 1, [k \in 1..Len(out) |-> Zero]),
                assume_unit)

--------------------------------------------------------------------------
(* Idle values of the variables a specification does not use.              *)

NoMat == [pattern |-> PatternIdentity(0), values |-> <<>>]

LUIdle ==
    /\ a0 = NoMat /\ a = NoMat /\ csc_builder = CsBuilderNew(0, 0)
    /\ pivot = <<>> /\ ci = 0 /\ pat_contains = <<>> /\ stack = <<>>
    /\ pat_buf = <<>> /\ val_buf = <<>> /\ solved_pat = <<>> /\ solved_val = <<>>
    /\ best_i = 0 /\ lu_pc = "idle" /\ l_u = NoMat /\ b_in = <<>> /\ b_out = <<>>

ReachIdle == sp = PatternIdentity(0) /\ rb = <<>> /\ rout = <<>> /\ rpc = "idle"

BldIdle ==
    /\ bld = CsBuilderNew(0, 0) /\ bhist = <<>> /\ bprev = CsBuilderNew(0, 0)
    /\ bbuilt = NoMat /\ bpc = "idle" /\ brev = <<>>

SwapIdle == sw_m0 = NoMat /\ sw_m = NoMat /\ sw_prev = NoMat /\ sw_calls = <<>>

NoResult == [res |-> <<"none">>, mat |-> NoMat]

TripIdle ==
    /\ t_rows = 0 /\ t_cols = 0 /\ t_in = <<>> /\ t_buf = <<>>
    /\ t_res = NoResult /\ t_pc = "idle"

DenseIdle == dn_m = NoMat /\ dn_b = <<>> /\ dn_out = <<>> /\ dn_kind = "none" /\ dn_pc = "idle"

SparseIdle ==
    /\ ss_m = NoMat /\ ss_b_idxs = <<>> /\ ss_b = <<>> /\ ss_pat = <<>>
    /\ ss_out = <<>> /\ ss_unit = FALSE /\ ss_pc = "idle"

CallsIdle == SwapIdle /\ TripIdle /\ DenseIdle /\ SparseIdle

--------------------------------------------------------------------------
(* Input enumeration: the valid patterns and matrices of a given size.     *)

RECURSIVE SortedSeq(_)
\* the elements of a finite set of numbers in ascending order
SortedSeq(S) ==
    IF S = {} THEN <<>>
    ELSE LET m == CHOOSE x \in S : \A y \in S : x <= y
         IN  <<m>> \o SortedSeq(S \ {m})

RECURSIVE OffsetsOf(_, _, _)
OffsetsOf(n, cells, c) ==
    IF c > n THEN <<>>
    ELSE <<Cardinality({e \in cells : e[1] < c})>> \o OffsetsOf(n, cells, c + 1)

RECURSIVE MinorsOf(_, _, _)
MinorsOf(n, cells, c) ==
    IF c >= n THEN <<>>
    ELSE SortedSeq({e[2] : e \in {x \in cells : x[1] = c}}) \o MinorsOf(n, cells, c + 1)

\* the valid n x n SparsityPattern that stores exactly the <<major, minor>>
\* pairs of cells
PatternOf(n, cells) ==
    [major_offsets |-> OffsetsOf(n, cells, 0),
     minor_indices |-> MinorsOf(n, cells, 0),
     minor_dim |-> n]

Cells(n) == (0..(n - 1)) \X (0..(n - 1))

SeqsUpTo(S, n) == UNION {[1..k -> S] : k \in 0..n}

--------------------------------------------------------------------------
(* LeftLookingLUFactorization::new and solve (sparse_lu.rs).               *)

\* the values an input matrix may store (0 is an explicit stored zero)
InputValues == {Zero, One, FromInt(-2)}

\* the values of a right-hand side b
RhsValues == {Zero, One, FromInt(-2)}

\* the valid n x n CsMatrix that stores f[<<col, row>>] at every cell of f
MatOf(n, f) ==
    LET pat == PatternOf(n, DOMAIN f)
    IN  [pattern |-> pat,
         values |-> [k \in 1..nnz(pat) |-> f[entries(pat)[k]]]]

\* `pat_contains.iter().enumerate().filter_map(|(i, c)| c.then_some(i))`
TrueIndices(bs) == SortedSeq({k - 1 : k \in {m \in 1..Len(bs) : bs[m]}})

\* max_by keeps the earlier of two elements only when it compares Greater
KeepsEarlier(x, y) == FLt(FAbs(y), FAbs(x))

\* a comparison that also keeps the earlier element on Equal
KeepsEarlierOnTie(x, y) == ~ FLt(FAbs(x), FAbs(y))

\* the closure handed to max_by, as the test "the fold keeps x over y"
MaxByKeeps(x, y) == KeepsEarlier(x, y)

RECURSIVE MaxByFold(_, _, _, _, _)
\* Iterator::max_by over the positions k.. of val with pat[k] >= col_i;
\* best is the 1-based position held so far (0: none yet)
MaxByFold(pat, val, col_i, k, best) ==
    IF k > Len(val) THEN best
    ELSE IF pat[k] < col_i THEN MaxByFold(pat, val, col_i, k + 1, best)
    ELSE IF best # 0 /\ MaxByKeeps(val[best], val[k])
    THEN MaxByFold(pat, val, col_i, k + 1, best)
    ELSE MaxByFold(pat, val, col_i, k + 1, k)

\* lines 125-131: the 0-based position of the pivot in val_buf
BestPosition(pat, val, col_i) ==
    LET best == MaxByFold(pat, val, col_i, 1, 0)
    IN  IF best = 0 THEN col_i ELSE best - 1

RECURSIVE EmitColumn(_, _, _, _, _, _)
\* lines 173-184: insert the column's entries from position k on; res is
\* "ok", "nonfinite" (assert!(val.is_finite())) or "insert" (debug_assert_eq)
EmitColumn(cb, pat, val, k, col_i, ukk) ==
    IF k > Len(pat) THEN [res |-> "ok", cb |-> cb]
    ELSE LET row == pat[k]
             v == IF row <= col_i THEN val[k] ELSE FDiv(val[k], ukk)
             r == CsInsert(cb, col_i, row, v)
         IN  IF ~ IsFinite(v) THEN [res |-> "nonfinite", cb |-> cb]
             ELSE IF r.res # Ok THEN [res |-> "insert", cb |-> r.cb]
             ELSE EmitColumn(r.cb, pat, val, k + 1, col_i, ukk)

\* The iteration of `for ci in 0..n` (lines 93-185) is computed in stages
\* over a record c of the locals: a, builder, pivot, ci, contains, stack
\* (the loop's variables), curr_mat, solved_pat/solved_val (pat_buf and
\* val_buf after the sparse solve), pat/val (the same after the relabel),
\* best (the pivot row), ukk and pc ("loop", or the panic message).

\* lines 167-184: back to a builder, revert to column ci, emit the column
ColumnEmit(c) ==
    LET rev == CsRevertToMajor(CsFromMat(c.curr_mat), c.ci)
        emit == EmitColumn(rev.cb, c.pat, c.val, 1, c.ci, c.ukk)
    IN  IF rev.res = "oob" THEN [c EXCEPT !.pc = "index out of bounds"]
        ELSE IF rev.res = "false" THEN [c EXCEPT !.pc = "assertion failed: v"]
        ELSE IF emit.res = "nonfinite"
        THEN [c EXCEPT !.pc = "assertion failed: val.is_finite()"]
        ELSE IF emit.res = "insert"
        THEN [c EXCEPT !.pc = "assertion failed: ins == Ok(())"]
        ELSE [c EXCEPT !.builder = emit.cb]

\* the swaps without the one of the already written columns of l_u
ColumnSwapRowsNotLU(c) ==
    ColumnEmit([c EXCEPT !.pivot = SwapAt(c.pivot, c.ci, c.best),
                         !.a = swap_minor(c.a, c.ci, c.best)])

\* lines 162-164: the three swaps that follow the relabel
ColumnSwapRows(c) ==
    ColumnEmit([c EXCEPT !.pivot = SwapAt(c.pivot, c.ci, c.best),
                         !.curr_mat = swap_minor(c.curr_mat, c.ci, c.best),
                         !.a = swap_minor(c.a, c.ci, c.best)])

\* lines 160: assert!(pat_buf.is_sorted())
ColumnCheckSorted(c) ==
    IF IsSorted(c.pat) THEN ColumnSwapRows(c)
    ELSE [c EXCEPT !.pc = "assertion failed: pat_buf.is_sorted()"]

\* lines 138-159: relabel pat_buf and restore its order by the two passes
ColumnRelabel(c, pv) ==
    ColumnCheckSorted([c EXCEPT !.pat = pv.idx, !.val = pv.vals])

\* the same without the rank test
ColumnPivotNoRankTest(c) ==
    IF c.best = c.ci THEN ColumnEmit(c)
    ELSE ColumnRelabel(c,
             ReversePass(ForwardPass([idx |-> Relabel(c.pat, c.ci, c.best), vals |-> c.val],
                                     0, Len(c.pat)),
                         0, Len(c.pat) - 1))

\* lines 134-137: the rank test, then the swap branch when best_i != ci
ColumnPivot(c) ==
    IF c.ukk = Zero THEN [c EXCEPT !.pc = "rank-deficient matrix"]
    ELSE IF c.best = c.ci THEN ColumnEmit(c)
    ELSE ColumnRelabel(c,
             ReversePass(ForwardPass([idx |-> Relabel(c.pat, c.ci, c.best), vals |-> c.val],
                                     0, Len(c.pat)),
                         0, Len(c.pat) - 1))

\* lines 133, 136: ukk = val_buf[best_i]; best_i = pat_buf[best_i]
ColumnIndex(c, bpos) ==
    IF bpos >= Len(c.val) THEN [c EXCEPT !.pc = "index out of bounds"]
    ELSE ColumnPivot([c EXCEPT !.ukk = At(c.val, bpos), !.best = At(c.pat, bpos)])

\* lines 125-131: the pivot search
ColumnSearch(c) == ColumnIndex(c, BestPosition(c.pat, c.val, c.ci))

\* lines 110-121: the numeric solve of the column into val_buf
ColumnNumeric(c, col, val) ==
    ColumnSearch([c EXCEPT !.solved_val = val, !.val = val])

\* lines 102-108: pat_buf from pat_contains
ColumnPattern(c, col, pat) ==
    ColumnNumeric([c EXCEPT !.solved_pat = pat, !.pat = pat], col,
                  sparse_lower_triangular_solve_sorted(
                      c.curr_mat, col.idx, col.vals, pat,
                      Resize(c.val, Len(pat), Zero), TRUE))

\* lines 97-101: the symbolic phase
ColumnSymbolic(c, col, sym) ==
    ColumnPattern([c EXCEPT !.contains = sym.out, !.stack = sym.stack], col,
                  TrueIndices(sym.out))

\* lines 94-96: curr_mat = csc_builder.build(); a.col(ci)
ColumnBuilt(c, col) ==
    ColumnSymbolic(c, col,
        sparse_lower_triangular_solve_bool(c.curr_mat.pattern, col.idx, c.contains, c.stack))

\* one iteration of the for loop, from the loop's variables
ColumnStep(wa, builder, piv, col_i, contains, stk, old_val) ==
    ColumnBuilt([a |-> wa, builder |-> builder, pivot |-> piv, ci |-> col_i,
                 contains |-> contains, stack |-> stk,
                 curr_mat |-> CsBuild(builder),
                 solved_pat |-> <<>>, solved_val |-> <<>>,
                 pat |-> <<>>, val |-> old_val,
                 best |-> col_i, ukk |-> Zero, pc |-> "loop"],
                CsLane(wa, col_i))

\* the state at the head of the for loop of new(a0)
LUInit ==
    /\ \E n \in 1..MaxN :
          /\ \E cells \in SUBSET Cells(n) :
                /\ Cardinality(cells) <= MaxNnz
                /\ \E f \in [cells -> InputValues] : a0 = MatOf(n, f)
          /\ pivot = [k \in 1..n |-> k - 1]
          /\ csc_builder = CsBuilderNew(n, n)
          /\ pat_contains = [k \in 1..n |-> FALSE]
    /\ a = a0
    /\ ci = 0
    /\ stack = <<>>
    /\ pat_buf = <<>> /\ val_buf = <<>>
    /\ solved_pat = <<>> /\ solved_val = <<>>
    /\ best_i = 0
    /\ lu_pc = "loop"
    /\ l_u = NoMat
    /\ b_in = <<>> /\ b_out = <<>>
    /\ ReachIdle /\ BldIdle /\ CallsIdle

\* one iteration of the for loop of new
NewColumn ==
    /\ lu_pc = "loop"
    /\ ci < nrows(a0)
    /\ \E r \in {ColumnStep(a, csc_builder, pivot, ci, pat_contains, stack, val_buf)} :
           /\ a' = r.a
           /\ csc_builder' = r.builder
           /\ pivot' = r.pivot
           /\ pat_contains' = r.contains
           /\ stack' = r.stack
           /\ solved_pat' = r.solved_pat
           /\ solved_val' = r.solved_val
           /\ pat_buf' = r.pat
           /\ val_buf' = r.val
           /\ best_i' = r.best
           /\ lu_pc' = r.pc
           /\ ci' = IF r.pc = "loop" THEN ci + 1 ELSE ci
    /\ UNCHANGED <<a0, l_u, b_in, b_out>>
    /\ UNCHANGED <<reachvars, bldvars>>
    /\ UNCHANGED callvars

\* lines 187-189: the loop is over, build l_u and return
NewReturn ==
    /\ lu_pc = "loop"
    /\ ci = nrows(a0)
    /\ LET m == CsBuild(csc_builder)
       IN  /\ l_u' = m
           /\ lu_pc' = IF \A k \in 1..Len(m.values) : IsFinite(m.values[k])
                       THEN "returned" ELSE "assertion failed: is_finite"
    /\ UNCHANGED <<a0, a, csc_builder, pivot, ci, pat_contains, stack, pat_buf, val_buf,
                   solved_pat, solved_val, best_i, b_in, b_out>>
    /\ UNCHANGED <<reachvars, bldvars>>
    /\ UNCHANGED callvars

\* solve_arr with the pivot gather left out
solve_arr_no_gather(m, piv, b) ==
    dense_upper_triangular_solve_arr(m, dense_lower_triangular_solve_arr(m, b, TRUE))

\* LeftLookingLUFactorization::solve_arr (N = 1): b afterwards
solve_arr(m, piv, b) ==
    LET buf == b
        gathered == [k \in 1..Len(b) |-> At(buf, At(piv, k - 1))]
        fwd == dense_lower_triangular_solve_arr(m, gathered, TRUE)
    IN  dense_upper_triangular_solve_arr(m, fwd)

\* solve(b, buf) on the returned factorization
Solve ==
    /\ lu_pc = "returned"
    /\ \E b \in [1..nrows(a0) -> RhsValues] :
          /\ b_in' = b
          /\ b_out' = solve_arr(l_u, pivot, b)
    /\ lu_pc' = "solved"
    /\ UNCHANGED <<a0, a, csc_builder, pivot, ci, pat_contains, stack, pat_buf, val_buf,
                   solved_pat, solved_val, best_i, l_u>>
    /\ UNCHANGED <<reachvars, bldvars>>
    /\ UNCHANGED callvars

LUNext == NewColumn \/ NewReturn \/ Solve

Spec == LUInit /\ [][LUNext]_vars

--------------------------------------------------------------------------
(* Claims about the factorization.                                         *)

N == nrows(a0)

Returned == lu_pc \in {"returned", "solved"}

Aborted == lu_pc \notin {"loop", "returned", "solved"}

\* the value of m at row r, column c (zero where nothing is stored)
Entry(m, r, c) ==
    IF Contains(lane(m.pattern, c), r)
    THEN CsLane(m, c).vals[Position(lane(m.pattern, c), r)]
    ELSE Zero

Stored(m, r, c) == Contains(lane(m.pattern, c), r)

RECURSIVE SumSeq(_)
SumSeq(s) == IF s = <<>> THEN Zero ELSE FAdd(s[1], SumSeq(Tail(s)))

\* l_u read as L: strictly lower entries and an implicit unit diagonal
LowerOf(m, i, j) == IF i = j THEN One ELSE IF i > j THEN Entry(m, i, j) ELSE Zero

\* l_u read as U: the entries on and above the diagonal
UpperOf(m, i, j) == IF i <= j THEN Entry(m, i, j) ELSE Zero

\* (L * U)[i, j]
Product(m, i, j) ==
    SumSeq([k \in 1..nrows(m) |-> FMul(LowerOf(m, i, k - 1), UpperOf(m, k - 1, j))])

IsPermutation(piv, n) ==
    /\ Len(piv) = n
    /\ \A i \in 0..(n - 1) : \E k \in 1..n : piv[k] = i

\* C1: when new(A) returns, pivot is a permutation of 0..n and L * U = P * A
\* exactly, row i of P * A being row pivot[i] of A.
C1_FactorizationIsPA ==
    Returned =>
        /\ IsPermutation(pivot, N)
        /\ \A i, j \in 0..(N - 1) : Product(l_u, i, j) = Entry(a0, At(pivot, i), j)

\* a returned 3 x 3 factorization with a row swap at column 1 or later and
\* a stored multiplier below the diagonal
C1_Witness ==
    /\ lu_pc = "returned"
    /\ N = 3
    /\ At(pivot, 1) # 1 /\ At(pivot, 0) = 0
    /\ \E j \in 0..(N - 1), i \in 0..(N - 1) : i > j /\ Entry(l_u, i, j) # Zero

RECURSIVE PermSeqs(_)
\* the sequences that list every element of S once
PermSeqs(S) ==
    IF S = {} THEN {<<>>}
    ELSE UNION {{<<x>> \o q : q \in PermSeqs(S \ {x})} : x \in S}

Inversions(q) == Cardinality({e \in (1..Len(q)) \X (1..Len(q)) : e[1] < e[2] /\ q[e[1]] > q[e[2]]})

RECURSIVE ProductSeq(_)
ProductSeq(s) == IF s = <<>> THEN One ELSE FMul(s[1], ProductSeq(Tail(s)))

\* the Leibniz term of permutation q
DetTerm(m, q) ==
    FMul(FromInt(IF Inversions(q) % 2 = 0 THEN 1 ELSE -1),
         ProductSeq([k \in 1..Len(q) |-> Entry(m, k - 1, q[k])]))

RECURSIVE DetSum(_, _)
DetSum(m, Q) ==
    IF Q = {} THEN Zero
    ELSE LET q == CHOOSE x \in Q : TRUE
         IN  FAdd(DetTerm(m, q), DetSum(m, Q \ {q}))

Determinant(m) == DetSum(m, PermSeqs(0..(nrows(m) - 1)))

Nonsingular(m) == Determinant(m) # Zero

\* C2: new(A) returns for every nonsingular A, also when a column of the
\* working copy stores entries in rows above the diagonal.
C2_NonsingularReturns == Nonsingular(a0) => ~ Aborted

\* (A * x)[i]
MatVec(m, x, i) == SumSeq([k \in 1..Len(x) |-> FMul(Entry(m, i, k - 1), x[k])])

\* C3: solve leaves in b the x with A * x = b (exact arithmetic: the
\* residual is zero), for every A whose factorization returned and every b.
C3_SolveSolves ==
    lu_pc = "solved" => \A i \in 0..(N - 1) : MatVec(a0, b_out, i) = At(b_in, i)

\* a solve of a 3 x 3 system whose factorization swapped rows, with a
\* right-hand side that the gather reorders
C3_Witness ==
    /\ lu_pc = "solved"
    /\ N = 3
    /\ pivot # <<0, 1, 2>>
    /\ [k \in 1..N |-> At(b_in, At(pivot, k - 1))] # b_in
    /\ \E j \in 0..(N - 1), i \in 0..(N - 1) : i > j /\ Entry(l_u, i, j) # Zero

RECURSIVE InsertDiagonal(_, _, _)
\* the test's loop `for i in 0..n { a.insert(i, i, 1.) }`
InsertDiagonal(cb, i, n) ==
    IF i >= n THEN cb ELSE InsertDiagonal(CsInsert(cb, i, i, One).cb, i + 1, n)

IdentityByInserts(n) == CsBuild(InsertDiagonal(CsBuilderNew(n, n), 0, n))

\* C4: for A = I_n, built either way, new returns l_u equal to I_n (one
\* stored 1 per column, on the diagonal) and the identity pivot.
C4_IdentityFactor ==
    /\ IdentityByInserts(N) = CsIdentity(N)
    /\ a0 = CsIdentity(N) =>
           /\ ~ Aborted
           /\ Returned => l_u = CsIdentity(N) /\ pivot = [k \in 1..N |-> k - 1]

C4_Witness == lu_pc = "returned" /\ N = 3 /\ a0 = IdentityByInserts(3)

\* the positions of solved_pat' whose row is a pivot candidate of column ci
CandidatesNext == {k \in 1..Len(solved_pat') : solved_pat'[k] >= ci}

\* the step is an iteration of the for loop that got as far as choosing a pivot
ChoosesPivot == lu_pc = "loop" /\ ci < N /\ CandidatesNext # {}

\* the position in solved_pat' of the row chosen as pivot
ChosenNext == CHOOSE k \in CandidatesNext : solved_pat'[k] = best_i'

MaximalNext(k) ==
    \A m \in CandidatesNext : ~ FLt(FAbs(solved_val'[k]), FAbs(solved_val'[m]))

\* C5 as stated: the pivot is the candidate of largest absolute value, the
\* first such row when several tie.
C5_PivotFirstOfTies ==
    [][ChoosesPivot =>
          /\ \E k \in CandidatesNext : solved_pat'[k] = best_i'
          /\ MaximalNext(ChosenNext)
          /\ \A m \in CandidatesNext : MaximalNext(m) => ChosenNext <= m]_vars

\* C5 as the code has it: the pivot is the candidate of largest absolute
\* value, the last such row in ascending row order when several tie.
C5_PivotLastOfTies ==
    [][ChoosesPivot =>
          /\ \E k \in CandidatesNext : solved_pat'[k] = best_i'
          /\ MaximalNext(ChosenNext)
          /\ \A m \in CandidatesNext : MaximalNext(m) => m <= ChosenNext]_vars

\* the last processed column had two candidates of equal, largest, nonzero
\* absolute value, the diagonal row among them, and the later row was chosen
C5_Witness ==
    /\ lu_pc = "loop" /\ ci >= 1
    /\ \E k, m \in 1..Len(solved_pat) :
          /\ solved_pat[k] = ci - 1 /\ solved_pat[m] > ci - 1
          /\ FAbs(solved_val[k]) = FAbs(solved_val[m])
          /\ solved_val[k] # Zero
          /\ \A q \in 1..Len(solved_pat) :
                 solved_pat[q] >= ci - 1 => ~ FLt(FAbs(solved_val[m]), FAbs(solved_val[q]))
          /\ best_i = solved_pat[m]
          /\ \A q \in (m + 1)..Len(solved_pat) : FLt(FAbs(solved_val[q]), FAbs(solved_val[m]))

\* C6: an iteration whose chosen pivot value is exactly zero ends in the
\* rank-deficient failure, and a returned l_u stores a nonzero entry at
\* (ci, ci) in every column ci.
C6_ZeroPivotAborts ==
    [][/\ (ChoosesPivot /\ solved_val'[ChosenNext] = Zero)
              => lu_pc' = "rank-deficient matrix"
       /\ lu_pc' = "returned" =>
              \A c \in 0..(N - 1) : Stored(l_u', c, c) /\ Entry(l_u', c, c) # Zero]_vars

\* new aborted as rank-deficient at column 1 or later, on a column that
\* stores an entry (whose solved value is an explicit zero)
C6_Witness ==
    /\ lu_pc = "rank-deficient matrix"
    /\ ci >= 1
    /\ solved_pat # <<>>
    /\ \E k \in 1..Len(solved_pat) : solved_pat[k] = best_i /\ solved_val[k] = Zero

--------------------------------------------------------------------------
(* The builder under a caller that inserts in any order and then builds.   *)

\* the value the k-th insert call carries (distinct per call)
InsertValue(k) == FromInt(k)

BuilderInit ==
    /\ \E majd \in 1..MaxDim, mind \in 1..MaxDim : bld = CsBuilderNew(majd, mind)
    /\ bhist = <<>>
    /\ bprev = bld
    /\ bbuilt = NoMat
    /\ bpc = "open"
    /\ brev = <<>>
    /\ LUIdle /\ ReachIdle /\ CallsIdle

\* CsBuilder::insert(maj, min, val) with in-range indices
BInsert(maj, min) ==
    /\ bpc = "open"
    /\ Len(bhist) < MaxInserts
    /\ LET val == InsertValue(Len(bhist) + 1)
           r == CsInsert(bld, maj, min, val)
       IN  /\ bld' = r.cb
           /\ bhist' = Append(bhist, <<maj, min, val, r.res>>)
    /\ bprev' = bld
    /\ UNCHANGED <<bbuilt, bpc, brev>>
    /\ UNCHANGED <<luvars, reachvars>>
    /\ UNCHANGED callvars

\* CsBuilder::build
BBuild ==
    /\ bpc = "open"
    /\ bbuilt' = CsBuild(bld)
    /\ bpc' = "built"
    /\ UNCHANGED <<bld, bhist, bprev, brev>>
    /\ UNCHANGED <<luvars, reachvars>>
    /\ UNCHANGED callvars

BInsertAny ==
    \E maj \in 0..(bld.sparsity_builder.major_dim - 1),
       min \in 0..(bld.sparsity_builder.buf.minor_dim - 1) : BInsert(maj, min)

BuilderNext == BInsertAny \/ BBuild

SpecBuilder == BuilderInit /\ [][BuilderNext]_vars

--------------------------------------------------------------------------
(* Claims about the builder.                                               *)

\* the (major, minor) pairs of the insert calls made so far
InsertedPairs == [k \in 1..Len(bhist) |-> <<bhist[k][1], bhist[k][2]>>]

\* the ordering rule: major non-decreasing, minor strictly increasing within
\* a major (majors may be skipped)
RespectsOrder(h) ==
    \A k \in 2..Len(h) :
        \/ h[k - 1][1] < h[k][1]
        \/ h[k - 1][1] = h[k][1] /\ h[k - 1][2] < h[k][2]

OffsetsWellFormed(p) ==
    /\ p.major_offsets[1] = 0
    /\ Last(p.major_offsets) = nnz(p)
    /\ \A k \in 1..(Len(p.major_offsets) - 1) : p.major_offsets[k] <= p.major_offsets[k + 1]

\* C9: every insert sequence into a fresh builder that respects the ordering
\* rule is accepted call by call, and build() then returns a pattern whose
\* entries() is the inserted sequence, whose major_dim() is the declared one
\* and whose offsets run non-decreasing from 0 to nnz.
C9_BuildReturnsInserted ==
    RespectsOrder(InsertedPairs) =>
        /\ \A k \in 1..Len(bhist) : bhist[k][4] = Ok
        /\ bpc = "built" =>
               /\ entries(bbuilt.pattern) = InsertedPairs
               /\ major_dim(bbuilt.pattern) = bld.sparsity_builder.major_dim
               /\ OffsetsWellFormed(bbuilt.pattern)

\* a built pattern from three ordered inserts, two of them in one major and
\* one that skips a major
C9_Witness ==
    /\ bpc = "built"
    /\ Len(bhist) >= 3
    /\ RespectsOrder(InsertedPairs)
    /\ \E k \in 2..Len(bhist) : bhist[k][1] >= bhist[k - 1][1] + 2
    /\ \E k \in 2..Len(bhist) : bhist[k][1] = bhist[k - 1][1]

\* the minors of the builder's open (current) major
OpenLane(sb) ==
    SubSeq(sb.buf.minor_indices, Last(sb.buf.major_offsets) + 1, Len(sb.buf.minor_indices))

\* what the contract says insert(maj, min) returns on builder sb
ExpectedInsertResult(sb, maj, min) ==
    IF maj < current_major(sb) THEN MajorTooLow(current_major(sb))
    ELSE IF maj = current_major(sb) /\ OpenLane(sb) # <<>> /\ min <= Last(OpenLane(sb))
    THEN MinorTooLow(min, Last(OpenLane(sb)))
    ELSE Ok

\* C10: insert returns MajorTooLow(current_major) below the current major,
\* MinorTooLow(min, last_minor) for a minor not above the last one of the
\* non-empty current major, Ok otherwise; an error leaves offsets, minor
\* indices and values untouched.
C10_InsertErrors ==
    bhist # <<>> =>
        LET call == Last(bhist)
        IN  /\ call[4] = ExpectedInsertResult(bprev.sparsity_builder, call[1], call[2])
            /\ call[4] # Ok => bld = bprev
            /\ call[4] = Ok => Len(bld.values) = Len(bprev.values) + 1

\* both errors have been returned by one builder
C10_Witness ==
    /\ \E k \in 1..Len(bhist) : bhist[k][4][1] = "MajorTooLow"
    /\ bhist # <<>> /\ Last(bhist)[4][1] = "MinorTooLow"

--------------------------------------------------------------------------
(* The builder under a caller that inserts and then reverts to a major.    *)

\* CsBuilder::revert_to_major(maj) (CscBuilder::revert_to_col)
BRevert(maj) ==
    /\ bpc = "open"
    /\ \E r \in {CsRevertToMajor(bld, maj)} :
          /\ bld' = r.cb
          /\ bpc' = IF r.res = "true" THEN "reverted"
                    ELSE IF r.res = "oob" THEN "index out of bounds"
                    ELSE "returned false"
    /\ bprev' = bld
    /\ brev' = <<maj>>
    /\ UNCHANGED <<bhist, bbuilt>>
    /\ UNCHANGED <<luvars, reachvars>>
    /\ UNCHANGED callvars

\* the caller reverts to the current major or to an earlier one
BRevertAny == \E maj \in 0..current_major(bld.sparsity_builder) : BRevert(maj)

RevertNext == BInsertAny \/ BRevertAny

SpecRevert == BuilderInit /\ [][RevertNext]_vars

\* the accepted insert calls into majors 0..=m, in call order
KeptInserts(m) == SelectSeq(bhist, LAMBDA call : call[4] = Ok /\ call[1] <= m)

\* C11: revert_to_major(m) with m <= current major returns true and leaves
\* a builder with current major m that keeps the first m + 1 offsets and
\* exactly the entries (and values) inserted into majors 0..=m.
C11_RevertKeepsMajors ==
    brev # <<>> =>
        LET m == brev[1]
            kept == KeptInserts(m)
        IN  /\ bpc = "reverted"
            /\ current_major(bld.sparsity_builder) = m
            /\ bld.sparsity_builder.buf.major_offsets =
                   SubSeq(bprev.sparsity_builder.buf.major_offsets, 1, m + 1)
            /\ bld.sparsity_builder.buf.minor_indices = [k \in 1..Len(kept) |-> kept[k][2]]
            /\ bld.values = [k \in 1..Len(kept) |-> kept[k][3]]

\* the part of C11 the code does keep: a revert below the current major
\* returns true, keeps the first m + 1 offsets, and keeps the entries of
\* majors 0..=m followed by at most one entry of major m + 1
C11_RevertBelowCurrent ==
    (brev # <<>> /\ brev[1] < current_major(bprev.sparsity_builder)) =>
        LET m == brev[1]
            kept == KeptInserts(m)
            idx == bld.sparsity_builder.buf.minor_indices
        IN  /\ bpc = "reverted"
            /\ current_major(bld.sparsity_builder) = m
            /\ bld.sparsity_builder.buf.major_offsets =
                   SubSeq(bprev.sparsity_builder.buf.major_offsets, 1, m + 1)
            /\ Len(idx) \in {Len(kept), Len(kept) + 1}
            /\ Len(bld.values) = Len(idx)
            /\ \A k \in 1..Len(kept) : idx[k] = kept[k][2] /\ bld.values[k] = kept[k][3]

\* a revert to the current major: the call indexes major_offsets[maj + 1]
\* past the end
C11_RevertToCurrentAborts ==
    (brev # <<>> /\ brev[1] = current_major(bprev.sparsity_builder)) =>
        bpc = "index out of bounds" /\ bld = bprev

--------------------------------------------------------------------------
(* swap_minor (Csc::swap_rows) on every small matrix.                      *)

\* the valid nc-column, nr-row matrix that stores exactly the <<column, row>>
\* pairs of cells, the k-th stored entry holding the value k
NumberedMat(nc, nr, cells) ==
    LET pat == [PatternOf(nc, cells) EXCEPT !.minor_dim = nr]
    IN  [pattern |-> pat, values |-> [k \in 1..nnz(pat) |-> FromInt(k)]]

SwapInit ==
    /\ \E nc \in 1..MaxSwapCols, nr \in 1..MaxSwapRows :
          \E cells \in SUBSET ((0..(nc - 1)) \X (0..(nr - 1))) :
              /\ Cardinality(cells) <= MaxSwapNnz
              /\ sw_m0 = NumberedMat(nc, nr, cells)
    /\ sw_m = sw_m0
    /\ sw_prev = sw_m0
    /\ sw_calls = <<>>
    /\ LUIdle /\ ReachIdle /\ BldIdle
    /\ TripIdle /\ DenseIdle /\ SparseIdle

\* one call sw_m.swap_minor(x, y)
SwapMinor(x, y) ==
    /\ Len(sw_calls) < MaxSwaps
    /\ sw_prev' = sw_m
    /\ sw_m' = swap_minor(sw_m, x, y)
    /\ sw_calls' = Append(sw_calls, <<x, y>>)
    /\ UNCHANGED sw_m0
    /\ UNCHANGED <<luvars, reachvars, bldvars>>
    /\ UNCHANGED <<tripvars, densevars, sparsevars>>

SwapMinorAny == \E x, y \in 0..(nrows(sw_m0) - 1) : SwapMinor(x, y)

SwapNext == SwapMinorAny

SpecSwap == SwapInit /\ [][SwapNext]_vars

\* C12: swap_minor(a, b) applied twice restores offsets, minor indices and
\* values exactly, for any a, b < minor_dim (a = b and absent minors too).
C12_SwapTwiceIsIdentity ==
    (Len(sw_calls) = 2 /\ sw_calls[1] = sw_calls[2]) => sw_m = sw_m0

\* two equal swaps of distinct rows were applied to a matrix with a lane that
\* holds both rows and a row between them, and a lane that holds only one
C12_Witness ==
    /\ Len(sw_calls) = 2 /\ sw_calls[1] = sw_calls[2]
    /\ sw_calls[1][1] + 1 < sw_calls[1][2]
    /\ sw_prev # sw_m0
    /\ \E c \in 0..(ncols(sw_m0) - 1) :
          /\ Contains(lane(sw_m0.pattern, c), sw_calls[1][1])
          /\ Contains(lane(sw_m0.pattern, c), sw_calls[1][2])
          /\ Contains(lane(sw_m0.pattern, c), sw_calls[1][1] + 1)
    /\ \E c \in 0..(ncols(sw_m0) - 1) :
          /\ Contains(lane(sw_m0.pattern, c), sw_calls[1][2])
          /\ ~ Contains(lane(sw_m0.pattern, c), sw_calls[1][1])

\* row r after the rows x and y have traded places
Swapped(r, x, y) == IF r = x THEN y ELSE IF r = y THEN x ELSE r

StrictlyAscending(s) == \A k \in 1..(Len(s) - 1) : s[k] < s[k + 1]

\* C13: after swap_minor(a, b) every lane is strictly ascending again,
\* offsets and nnz are unchanged, and in every column the value at row a is
\* the one previously at row b and vice versa, every other (row, value)
\* pair being unchanged.
C13_SwapKeepsLanesSorted ==
    sw_calls # <<>> =>
        LET x == Last(sw_calls)[1]
            y == Last(sw_calls)[2]
        IN  /\ sw_m.pattern.major_offsets = sw_prev.pattern.major_offsets
            /\ nnz(sw_m.pattern) = nnz(sw_prev.pattern)
            /\ Len(sw_m.values) = Len(sw_prev.values)
            /\ \A c \in 0..(ncols(sw_m) - 1) :
                   /\ StrictlyAscending(lane(sw_m.pattern, c))
                   /\ \A r \in 0..(nrows(sw_m) - 1) :
                          /\ Stored(sw_m, Swapped(r, x, y), c) = Stored(sw_prev, r, c)
                          /\ Entry(sw_m, Swapped(r, x, y), c) = Entry(sw_prev, r, c)

\* a swap of the first and last of four rows on a full lane: both passes
\* have work to do
C13_Witness ==
    /\ Len(sw_calls) = 1
    /\ sw_calls[1] = <<0, 3>>
    /\ \E c \in 0..(ncols(sw_m0) - 1) : lane(sw_m0.pattern, c) = <<0, 1, 2, 3>>

--------------------------------------------------------------------------
(* Csc::from_triplets on every small buffer of ([x, y], v) records.        *)

\* the two asserts at the head of SparsityPatternBuilder::insert
InsertAsserts(cb, maj, min) ==
    maj < cb.sparsity_builder.major_dim /\ min < cb.sparsity_builder.buf.minor_dim

\* an insert that takes its first argument as the major
CscInsertMajorFirst(cb, row, col, val) == CsInsert(cb, row, col, val)

\* CscBuilder::insert(row, col, val)
CscInsert(cb, row, col, val) == CsInsert(cb, col, row, val)

\* CscBuilder::new(rows, cols)
CscBuilderNew(rows, cols) == CsBuilderNew(cols, rows)

\* the order of [usize; 2] keys: lexicographic
KeyLeq(k1, k2) == k1[1] < k2[1] \/ (k1[1] = k2[1] /\ k1[2] <= k2[2])

\* a buffer left as the caller filled it
Unsorted(t) == {t}

\* `t.sort_unstable_by_key(|a| a.0)`: the buffers the sort may leave (records
\* of equal key in either order)
SortedByKey(t) ==
    {[k \in 1..Len(t) |-> t[q[k]]] : q \in
        {q \in PermSeqs(1..Len(t)) :
            \A k \in 1..(Len(t) - 1) : KeyLeq(t[q[k]][1], t[q[k + 1]][1])}}

RECURSIVE InsertTriplets(_, _, _)
\* `for &([x, y], v) in t.iter() { builder.insert(y, x, v)?; }` from record k
\* on, then `Ok(builder.build())`; res is Ok, the Err, or the failed assert
InsertTriplets(cb, t, k) ==
    IF k > Len(t) THEN [res |-> Ok, mat |-> CsBuild(cb)]
    ELSE LET x == t[k][1][1]
             y == t[k][1][2]
             r == CscInsert(cb, y, x, t[k][2])
         IN  IF ~ InsertAsserts(cb, x, y) THEN [res |-> <<"assertion failed">>, mat |-> NoMat]
             ELSE IF r.res # Ok THEN [res |-> r.res, mat |-> NoMat]
             ELSE InsertTriplets(r.cb, t, k + 1)

\* Csc::from_triplets(rows, cols, t) on the buffer as the sort left it
from_triplets(rows, cols, sorted) == InsertTriplets(CscBuilderNew(rows, cols), sorted, 1)

TripInit ==
    /\ t_rows \in 1..MaxTripDim
    /\ t_cols \in 1..MaxTripDim
    /\ \E keys \in SeqsUpTo((0..(MaxTripDim - 1)) \X (0..(MaxTripDim - 1)), MaxTriplets) :
          t_in = [k \in 1..Len(keys) |-> <<keys[k], FromInt(k)>>]
    /\ t_buf = t_in
    /\ t_res = NoResult
    /\ t_pc = "init"
    /\ LUIdle /\ ReachIdle /\ BldIdle
    /\ SwapIdle /\ DenseIdle /\ SparseIdle

\* one call Csc::from_triplets(t_rows, t_cols, &mut t_buf)
FromTriplets ==
    /\ t_pc = "init"
    /\ \E sorted \in SortedByKey(t_buf) :
          /\ t_buf' = sorted
          /\ \E r \in {from_triplets(t_rows, t_cols, sorted)} :
                /\ t_res' = r
                /\ t_pc' = IF r.res = <<"assertion failed">> THEN "assertion failed" ELSE "done"
    /\ UNCHANGED <<t_rows, t_cols, t_in>>
    /\ UNCHANGED <<luvars, reachvars, bldvars>>
    /\ UNCHANGED <<swapvars, densevars, sparsevars>>

TripNext == FromTriplets

SpecTriplets == TripInit /\ [][TripNext]_vars

\* C14 as stated: every record ([r, c], v) is the entry at row r, column c.
C14_TripletIsRowCol ==
    (t_pc = "done" /\ t_res.res = Ok) =>
        \A k \in 1..Len(t_in) :
            /\ Stored(t_res.mat, t_in[k][1][1], t_in[k][1][2])
            /\ Entry(t_res.mat, t_in[k][1][1], t_in[k][1][2]) = t_in[k][2]

\* C14 as the code has it: every record ([x, y], v) is the entry at column
\* x, row y of the rows x cols matrix returned, and the call aborts only on
\* a record with x >= cols or y >= rows.
C14_TripletIsColRow ==
    /\ (t_pc = "done" /\ t_res.res = Ok) =>
           /\ nrows(t_res.mat) = t_rows /\ ncols(t_res.mat) = t_cols
           /\ \A k \in 1..Len(t_in) :
                  /\ Stored(t_res.mat, t_in[k][1][2], t_in[k][1][1])
                  /\ Entry(t_res.mat, t_in[k][1][2], t_in[k][1][1]) = t_in[k][2]
    /\ t_pc = "assertion failed" =>
           \E k \in 1..Len(t_in) : t_in[k][1][1] >= t_cols \/ t_in[k][1][2] >= t_rows

\* a 2 x 2 matrix came back from a buffer that holds an off-diagonal record
\* and was not given in sorted order
C14_Witness ==
    /\ t_pc = "done" /\ t_res.res = Ok
    /\ t_rows = 2 /\ t_cols = 2
    /\ t_buf # t_in
    /\ \E k \in 1..Len(t_in) : t_in[k][1] = <<0, 1>>
    /\ \A k \in 1..Len(t_in) : t_in[k][1] # <<1, 0>>

\* every record is within the bounds that insert asserts
TripletsInRange ==
    \A k \in 1..Len(t_in) : t_in[k][1][1] < t_cols /\ t_in[k][1][2] < t_rows

TripletsDistinct == \A k, m \in 1..Len(t_in) : k # m => t_in[k][1] # t_in[m][1]

\* C15: on in-range records in any order from_triplets never returns
\* MajorTooLow; it returns Ok with one stored entry per record when the index
\* pairs are pairwise distinct and Err(MinorTooLow) exactly when two records
\* share an index pair.
C15_DuplicatesAreMinorTooLow ==
    (t_pc # "init" /\ TripletsInRange) =>
        /\ t_pc = "done"
        /\ t_res.res[1] # "MajorTooLow"
        /\ TripletsDistinct =>
               t_res.res = Ok /\ nnz(t_res.mat.pattern) = Len(t_in)
                              /\ Len(t_res.mat.values) = Len(t_in)
        /\ ~ TripletsDistinct => t_res.res[1] = "MinorTooLow"

\* a buffer given out of order with a repeated index pair was rejected, and
\* the repeated pair is not the first key in sorted order
C15_Witness ==
    /\ t_pc = "done" /\ TripletsInRange
    /\ t_res.res[1] = "MinorTooLow"
    /\ Len(t_in) = 3
    /\ t_in[1][1] = t_in[3][1]
    /\ KeyLeq(t_in[2][1], t_in[1][1]) /\ t_in[2][1] # t_in[1][1]

--------------------------------------------------------------------------
(* The dense triangular solves on every small square matrix.               *)

\* the valid n x n matrix that stores the <<column, row>> pairs of cells, the
\* k-th stored entry holding k - shift (shift = 1 stores one explicit zero)
ShiftedMat(n, cells, shift) ==
    LET pat == PatternOf(n, cells)
    IN  [pattern |-> pat, values |-> [k \in 1..nnz(pat) |-> FromInt(k - shift)]]

DenseKinds == {"lower", "lower_unit", "upper"}

DenseInit ==
    /\ \E n \in 1..MaxDenseN :
          /\ \E cells \in SUBSET Cells(n), shift \in {0, 1} :
                /\ Cardinality(cells) <= MaxDenseNnz
                /\ dn_m = ShiftedMat(n, cells, shift)
          /\ dn_b \in [1..n -> RhsValues]
          /\ dn_out = [k \in 1..n |-> Zero]
    /\ dn_kind \in DenseKinds
    /\ dn_pc = "init"
    /\ LUIdle /\ ReachIdle /\ BldIdle
    /\ SwapIdle /\ TripIdle /\ SparseIdle

\* one call of dense_lower_triangular_solve_arr(b, out, unit_diagonal) or
\* of dense_upper_triangular_solve_arr(b, out), N = 1
DenseSolve ==
    /\ dn_pc = "init"
    /\ dn_out' = IF dn_kind = "upper"
                 THEN dense_upper_triangular_solve_arr(dn_m, dn_b)
                 ELSE dense_lower_triangular_solve_arr(dn_m, dn_b, dn_kind = "lower_unit")
    /\ dn_pc' = "done"
    /\ UNCHANGED <<dn_m, dn_b, dn_kind>>
    /\ UNCHANGED <<luvars, reachvars, bldvars>>
    /\ UNCHANGED <<swapvars, tripvars, sparsevars>>

DenseNext == DenseSolve

SpecDense == DenseInit /\ [][DenseNext]_vars

\* the triangle the call of kind solves with, entry (i, j): the stored
\* entries of that triangle, and on the diagonal 1 in the unit mode and the
\* value d(i) otherwise
TriangleOf(m, kind, i, j, d(_)) ==
    IF i = j THEN (IF kind = "lower_unit" THEN One ELSE d(i))
    ELSE IF kind = "upper" THEN (IF i < j THEN Entry(m, i, j) ELSE Zero)
    ELSE (IF i > j THEN Entry(m, i, j) ELSE Zero)

\* the diagonal as stored (zero where nothing is stored)
StoredDiag(i) == Entry(dn_m, i, i)

\* the diagonal the code divides by: the stored value, 1 where none is stored
DiagOrOne(i) == IF Stored(dn_m, i, i) THEN Entry(dn_m, i, i) ELSE One

\* row i of T * out = b for the triangle with diagonal d
DenseRowSolved(i, d(_)) ==
    SumSeq([k \in 1..Len(dn_out) |->
               FMul(TriangleOf(dn_m, dn_kind, i, k - 1, d), dn_out[k])]) = At(dn_b, i)

--------------------------------------------------------------------------
(* sparse_lower_triangular_solve on every small square pattern.            *)

\* what out held before the call
StaleOut == <<0>>

ReachInit ==
    /\ \E n \in 1..MaxReachN :
          /\ \E cells \in SUBSET Cells(n) :
                /\ Cardinality(cells) <= MaxReachNnz
                /\ sp = PatternOf(n, cells)
          /\ rb \in SeqsUpTo(0..(n - 1), MaxB)
    /\ rout = StaleOut
    /\ rpc = "init"
    /\ LUIdle /\ BldIdle /\ CallsIdle

\* one call sp.sparse_lower_triangular_solve(&rb, &mut rout)
ReachCall ==
    /\ rpc = "init"
    /\ rout' = sparse_lower_triangular_solve(sp, rb, rout)
    /\ rpc' = "done"
    /\ UNCHANGED <<sp, rb>>
    /\ UNCHANGED <<luvars, bldvars>>
    /\ UNCHANGED callvars

ReachNext == ReachCall

SpecReach == ReachInit /\ [][ReachNext]_vars

RECURSIVE Closure(_, _)
\* the least set that contains S and is closed under the edges j -> i
\* (i in lane(j), i >= j)
Closure(p, S) ==
    LET T == S \cup {i \in 0..(major_dim(p) - 1) :
                        \E j \in S : Contains(lane(p, j), i) /\ i >= j}
    IN  IF T = S THEN S ELSE Closure(p, T)

Range(s) == {s[k] : k \in 1..Len(s)}

NoDuplicates(s) == \A k, m \in 1..Len(s) : k # m => s[k] # s[m]

\* C7: the call drops what out held and leaves in it, each once, exactly the
\* vertices reachable from b; an empty b leaves out empty.
C7_ReachIsClosure ==
    rpc = "done" =>
        /\ NoDuplicates(rout)
        /\ Range(rout) = Closure(sp, Range(rb))
        /\ rb = <<>> => rout = <<>>

\* a call whose result holds a vertex that is not in b, on a pattern that
\* also stores an entry above the diagonal, with stale contents dropped
C7_Witness ==
    /\ rpc = "done"
    /\ Range(rout) \ Range(rb) # {}
    /\ \E e \in Range(entries(sp)) : e[2] < e[1]
    /\ ~ Contains(rout, StaleOut[1])

\* C8: the output is a topological order: for every edge j -> i (i # j)
\* between two output vertices, j comes before i.
C8_TopologicalOrder ==
    rpc = "done" =>
        \A kj, ki \in 1..Len(rout) :
            (/\ rout[kj] # rout[ki]
             /\ Contains(lane(sp, rout[kj]), rout[ki])
             /\ rout[ki] >= rout[kj]) => kj < ki

--------------------------------------------------------------------------
(* sparse_lower_triangular_solve_sorted against the dense lower solve.     *)

\* the values a sparse right-hand side stores
SparseRhsValues == {One, FromInt(-2)}

SparseInit ==
    /\ \E n \in 1..MaxSparseN :
          /\ \E cells \in SUBSET Cells(n), shift \in {0, 1} :
                /\ Cardinality(cells) <= MaxSparseNnz
                /\ ss_m = ShiftedMat(n, cells, shift)
          /\ \E rows \in SUBSET (0..(n - 1)) :
                /\ ss_b_idxs = SortedSeq(rows)
                /\ ss_b \in [1..Cardinality(rows) -> SparseRhsValues]
          /\ \E rows \in SUBSET (0..(n - 1)) :
                /\ ss_pat = SortedSeq(rows)
                /\ ss_out = [k \in 1..Cardinality(rows) |-> One]
    /\ ss_unit \in BOOLEAN
    /\ ss_pc = "init"
    /\ LUIdle /\ ReachIdle /\ BldIdle
    /\ SwapIdle /\ TripIdle /\ DenseIdle

\* one call ss_m.sparse_lower_triangular_solve_sorted(b_idxs, b, out_pat,
\* out, assume_unit)
SparseSolve ==
    /\ ss_pc = "init"
    /\ ss_out' = sparse_lower_triangular_solve_sorted(ss_m, ss_b_idxs, ss_b, ss_pat,
                                                      ss_out, ss_unit)
    /\ ss_pc' = "done"
    /\ UNCHANGED <<ss_m, ss_b_idxs, ss_b, ss_pat, ss_unit>>
    /\ UNCHANGED <<luvars, reachvars, bldvars>>
    /\ UNCHANGED <<swapvars, tripvars, densevars>>

SparseNext == SparseSolve

SpecSparse == SparseInit /\ [][SparseNext]_vars

\* the dense vector that holds b[k] at row b_idxs[k] and zero elsewhere
ScatteredRhs ==
    [r \in 1..nrows(ss_m) |->
        IF Contains(ss_b_idxs, r - 1) THEN ss_b[Position(ss_b_idxs, r - 1)] ELSE Zero]

\* the dense lower solve of the scattered right-hand side, same diagonal mode
DenseReference == dense_lower_triangular_solve_arr(ss_m, ScatteredRhs, ss_unit)

\* out_pat holds the reachability closure of b_idxs
PatternCoversReach == Closure(ss_m.pattern, Range(ss_b_idxs)) \subseteq Range(ss_pat)

\* out agrees with the dense solution on out_pat, which is zero elsewhere
AgreesWithDense ==
    /\ \A k \in 1..Len(ss_pat) : ss_out[k] = At(DenseReference, ss_pat[k])
    /\ \A r \in 0..(nrows(ss_m) - 1) :
           ~ Contains(ss_pat, r) => At(DenseReference, r) = Zero

\* C18 as stated: for every square matrix and every ascending out_pat that
\* holds the reachability closure of b_idxs, out[k] is the value the dense
\* lower solve of the scattered b has at row out_pat[k], and that dense
\* solution is zero outside out_pat; the call ends normally whether or not
\* out_pat holds every index of b_idxs.
C18_SparseMatchesDense ==
    /\ ss_pc = "done" => Len(ss_out) = Len(ss_pat)
    /\ (ss_pc = "done" /\ PatternCoversReach) => AgreesWithDense

\* the mode divides by no stored zero: assume_unit, or no explicit zero on
\* the diagonal
NoZeroDivisor ==
    ss_unit \/ \A i \in 0..(nrows(ss_m) - 1) : Stored(ss_m, i, i) => Entry(ss_m, i, i) # Zero

\* C18 as the code has it: the same, for the matrices whose diagonal holds
\* no explicit zero when assume_unit is false.
C18_SparseMatchesDenseNoZeroDiagonal ==
    /\ ss_pc = "done" => Len(ss_out) = Len(ss_pat)
    /\ (ss_pc = "done" /\ PatternCoversReach /\ NoZeroDivisor) => AgreesWithDense

\* a non-unit solve on three rows whose pattern is larger than the closure,
\* whose closure is larger than b_idxs, and whose result shows the fill
C18_Witness ==
    /\ ss_pc = "done" /\ PatternCoversReach /\ ~ ss_unit /\ NoZeroDivisor
    /\ nrows(ss_m) = 3
    /\ Range(ss_pat) # Closure(ss_m.pattern, Range(ss_b_idxs))
    /\ \E k \in 1..Len(ss_pat) :
          /\ ~ Contains(ss_b_idxs, ss_pat[k])
          /\ ss_out[k] \notin {Zero, NonFinite}
    /\ \E k \in 1..Len(ss_pat) :
          /\ Contains(ss_b_idxs, ss_pat[k])
          /\ ss_out[k] # ss_b[Position(ss_b_idxs, ss_pat[k])]
          /\ ss_out[k] # NonFinite

--------------------------------------------------------------------------
(* sparse_lower_triangular_solve_bool as new calls it, column after column *)

\* the pattern and the start list of the call that the iteration for
\* column ci makes
BoolCallPattern == CsBuild(csc_builder).pattern

BoolCallStart == CsLane(a, ci).idx

\* C17: every call of sparse_lower_triangular_solve_bool, the per-column
\* calls of new that share one work stack included, sets out[i] exactly for
\* the i in the reachability closure of b (the set that
\* sparse_lower_triangular_solve outputs), and returns with the stack empty.
C17_BoolSolveIsClosure ==
    [][(lu_pc = "loop" /\ ci < N) =>
          /\ {i \in 0..(N - 1) : At(pat_contains', i)}
                 = Closure(BoolCallPattern, Range(BoolCallStart))
          /\ {i \in 0..(N - 1) : At(pat_contains', i)}
                 = Range(sparse_lower_triangular_solve(BoolCallPattern, BoolCallStart, <<>>))
          /\ stack' = <<>>]_vars

\* the part of C17 the code does keep: the marked set lies inside the
\* closure and holds the first start vertex
C17_BoolSolveWithinClosure ==
    [][(lu_pc = "loop" /\ ci < N) =>
          /\ {i \in 0..(N - 1) : At(pat_contains', i)}
                 \subseteq Closure(BoolCallPattern, Range(BoolCallStart))
          /\ BoolCallStart # <<>> => At(pat_contains', BoolCallStart[1])]_vars

==========================================================================
